---- MODULE Spec2Model ----
(***************************************************************************)
(* Model of nova_oar_mcp.py: the OAR cluster tools (list machines and      *)
(* clusters, create / delete / extend jobs, job queries).                  *)
(*                                                                         *)
(* A Python string is a sequence of tokens.  A token is a TLA+ string that *)
(* stands for one character ("1", ":", "-", " ", "\n", "'") or for a       *)
(* literal fragment of the source ("oarsub", "nodes=").  In every string   *)
(* the code inspects (arguments, command lines, remote output) white space *)
(* is a token of its own, so `" " in arg`, str.strip() and str.split('\n') *)
(* are computed on tokens exactly as Python computes them on characters;   *)
(* only the fixed texts of returned messages are multi-word tokens.        *)
(*                                                                         *)
(* Every tool call is one action.  The remote side is the environment: the *)
(* outcome of each ssh invocation (exit 0 with some stdout, non-zero exit  *)
(* with some stderr, or the 30 s timeout) is chosen nondeterministically.  *)
(* The tools share no state, so a call is atomic from any other call's     *)
(* point of view.  The variables record the call being answered: a call    *)
(* starts when the server is idle (op = "none"), and Respond hands its     *)
(* result to the caller and leaves the server idle again.                  *)
(***************************************************************************)
EXTENDS Integers, Sequences, FiniteSets, TLC

VARIABLES
    op,               \* name of the tool being answered ("none" when idle)
    args,             \* its arguments
    replies,          \* outcomes of the ssh invocations it made, in order
    issued,           \* command lines it handed to run_ssh_command, in order
    loads,            \* texts it handed to json.loads, in order
    ret,              \* what it returned (or the exception it raised)
    resource_string   \* create_job's local resource_string (<<>> if never built)

vars == <<op, args, replies, issued, loads, ret, resource_string>>

----------------------------------------------------------------------------
(* Bounds of the model *)

\* longest duration string tried as walltime / additional_time
MaxDurLen == 8
\* longest raw `oarnodes -l` output tried, in characters
MaxInvLen == 5
\* longest raw oarsub output tried, in tokens
MaxOutLen == 4
\* longest clusters list of a create_job request
MaxClusters == 2
\* largest node count and largest job id
MaxNodes == 2
MaxJobId == 2
\* longest raw output of a structured query tried, in tokens
MaxJsonLen == 2

----------------------------------------------------------------------------
(* Strings *)

Digits == {"0", "1", "2", "3", "4", "5", "6", "7", "8", "9"}

IsDigit(c) == c \in Digits

\* str.isspace() on the characters the model uses
IsSpace(c) == c \in {" ", "\n"}

\* all strings over alphabet A of length at most n
StringsUpTo(A, n) == UNION {[1..k -> A] : k \in 0..n}

\* code point of a character, for the order sorted() uses
Code(c) ==
    CASE c = "\n" -> 10
      [] c = " " -> 32
      [] c = "-" -> 45
      [] c = "a" -> 97
      [] c = "b" -> 98
      [] c = "c" -> 99

\* Python's s < t on strings: lexicographic by code point, a proper prefix first
RECURSIVE StrLess(_, _)
StrLess(s, t) ==
    IF t = <<>> THEN FALSE
    ELSE IF s = <<>> THEN TRUE
    ELSE IF Head(s) = Head(t) THEN StrLess(Tail(s), Tail(t))
    ELSE Code(Head(s)) < Code(Head(t))

RECURSIVE LStrip(_)
LStrip(s) == IF s # <<>> /\ IsSpace(Head(s)) THEN LStrip(Tail(s)) ELSE s

RECURSIVE RStrip(_)
RStrip(s) ==
    IF s # <<>> /\ IsSpace(s[Len(s)]) THEN RStrip(SubSeq(s, 1, Len(s) - 1)) ELSE s

\* str.strip()
Strip(s) == RStrip(LStrip(s))

\* `sep in s`
Contains(s, sep) == \E i \in 1..Len(s) : s[i] = sep

\* str.split(sep) for a one-character separator
RECURSIVE Split(_, _)
Split(s, sep) ==
    IF ~Contains(s, sep) THEN <<s>>
    ELSE LET i == CHOOSE k \in 1..Len(s) :
                      s[k] = sep /\ \A j \in 1..(k - 1) : s[j] # sep
         IN  <<SubSeq(s, 1, i - 1)>> \o Split(SubSeq(s, i + 1, Len(s)), sep)

\* sep.join(parts)
RECURSIVE Join(_, _)
Join(parts, sep) ==
    IF parts = <<>> THEN <<>>
    ELSE IF Len(parts) = 1 THEN parts[1]
    ELSE parts[1] \o sep \o Join(Tail(parts), sep)

\* Optional[...] parameters
None == [isNone |-> TRUE, v |-> <<>>]
Some(x) == [isNone |-> FALSE, v |-> x]

\* Python truth value of an Optional[str] / Optional[List[str]]
Truthy(x) == ~x.isNone /\ x.v # <<>>

----------------------------------------------------------------------------
(* The remote side: outcomes of one ssh invocation *)

Ok(out) == [kind |-> "ok", stdout |-> out, stderr |-> <<>>]
Failed(err) == [kind |-> "fail", stdout |-> <<>>, stderr |-> err]
TimedOut == [kind |-> "timeout", stdout |-> <<>>, stderr |-> <<>>]

\* non-zero exit (stderr with a trailing newline) and the timeout
Failures == {Failed(<<"denied", "\n">>), TimedOut}

----------------------------------------------------------------------------
(* run_ssh_command *)

Returned(v) == [raised |-> FALSE, value |-> v]
RaisedValueError(m) == [raised |-> TRUE, value |-> m]

run_ssh_command(r) ==
    CASE r.kind = "ok" -> Returned(Strip(r.stdout))
      [] r.kind = "fail" ->
            RaisedValueError(<<"Command failed: ">> \o Strip(r.stderr))
      [] r.kind = "timeout" ->
            RaisedValueError(<<"Command timed out">>)

\* what a tool hands back to its caller
RetStr(t) == [kind |-> "str", text |-> t]
RetList(l) == [kind |-> "list", items |-> l]
RetRaise(m) == [kind |-> "raise", msg |-> m]

\* the result of running a tool: the command lines issued, the texts handed
\* to json.loads, and the return
Outcome(cmds, lds, r) == [issued |-> cmds, loads |-> lds, ret |-> r]

----------------------------------------------------------------------------
(* Cluster topology: list_machines, list_clusters *)

\* [line.strip() for line in output.split('\n') if line.strip()]
RECURSIVE StripNonEmpty(_)
StripNonEmpty(lines) ==
    IF lines = <<>> THEN <<>>
    ELSE IF Strip(Head(lines)) # <<>>
         THEN <<Strip(Head(lines))>> \o StripNonEmpty(Tail(lines))
         ELSE StripNonEmpty(Tail(lines))

ParseMachines(output) == StripNonEmpty(Split(output, "\n"))

list_machines(rs) ==
    LET r == run_ssh_command(rs[1])
        cmd == <<"oarnodes", " ", "-l">>
    IN  IF r.raised THEN Outcome(<<cmd>>, <<>>, RetRaise(r.value))
        ELSE Outcome(<<cmd>>, <<>>, RetList(ParseMachines(r.value)))

\* the set built by the loop of list_clusters
ClusterSet(machines) ==
    {Split(machines[i], "-")[1] : i \in {j \in 1..Len(machines) : Contains(machines[j], "-")}}

\* sorted(list(S)) for a set of strings
RECURSIVE SortedList(_)
SortedList(S) ==
    IF S = {} THEN <<>>
    ELSE LET m == CHOOSE x \in S : \A y \in S \ {x} : StrLess(x, y)
         IN  <<m>> \o SortedList(S \ {m})

\* the names in order of first appearance: a list never sorted
RECURSIVE FirstSeen(_)
FirstSeen(machines) ==
    IF machines = <<>> THEN <<>>
    ELSE LET rest == FirstSeen(SubSeq(machines, 1, Len(machines) - 1))
             m == machines[Len(machines)]
             c == Split(m, "-")[1]
         IN  IF Contains(m, "-") /\ ~(\E i \in 1..Len(rest) : rest[i] = c)
             THEN Append(rest, c) ELSE rest

ClusterNamesUnsorted(machines) == FirstSeen(machines)

ClusterNames(machines) == SortedList(ClusterSet(machines))

list_clusters(rs) ==
    LET m == list_machines(rs)
    IN  IF m.ret.kind = "raise" THEN m
        ELSE Outcome(m.issued, <<>>, RetList(ClusterNames(m.ret.items)))

----------------------------------------------------------------------------
(* The duration grammar: re.match(r'^\d{1,2}:\d{2}:\d{2}$', s) *)

\* `$` without re.MULTILINE: at the end of the string, or just before a
\* newline that is the last character of the string
AtDollar(s, p) == p = Len(s) + 1 \/ (p = Len(s) /\ s[p] = "\n")

\* the match with h leading digits (the regex tries 2, then 1)
MatchWithHours(s, h) ==
    /\ Len(s) >= h + 6
    /\ \A i \in 1..h : IsDigit(s[i])
    /\ s[h + 1] = ":"
    /\ IsDigit(s[h + 2]) /\ IsDigit(s[h + 3])
    /\ s[h + 4] = ":"
    /\ IsDigit(s[h + 5]) /\ IsDigit(s[h + 6])
    /\ AtDollar(s, h + 7)

DurationMatch(s) == MatchWithHours(s, 2) \/ MatchWithHours(s, 1)

----------------------------------------------------------------------------
(* delete_job, extend_walltime, get_walltime_status *)

delete_job(a, rs) ==
    LET id == ToString(a.job_id)
        cmd == <<"oardel", " ", id>>
        r == run_ssh_command(rs[1])
    IN  IF r.raised
        THEN Outcome(<<cmd>>, <<>>,
                     RetStr(<<"Failed to delete job ", id, ": ">> \o r.value))
        ELSE Outcome(<<cmd>>, <<>>,
                     RetStr(<<"Job ", id, " deletion requested: ">> \o r.value))

extend_walltime(a, rs) ==
    IF ~DurationMatch(a.additional_time)
    THEN Outcome(<<>>, <<>>,
                 RetStr(<<"Invalid time format. Use hh:mm:ss (e.g., '1:30:00')">>))
    ELSE LET id == ToString(a.job_id)
             cmd == <<"oarwalltime", " ", id, " ", "+">> \o a.additional_time
                       \o (IF a.force THEN <<" ", "--force">> ELSE <<>>)
             r == run_ssh_command(rs[1])
         IN  IF r.raised
             THEN Outcome(<<cmd>>, <<>>,
                     RetStr(<<"Failed to extend walltime for job ", id, ": ">> \o r.value))
             ELSE Outcome(<<cmd>>, <<>>,
                     RetStr(<<"Extended walltime for job ", id, ": ">> \o r.value))

get_walltime_status(a, rs) ==
    LET id == ToString(a.job_id)
        cmd == <<"oarwalltime", " ", id>>
        r == run_ssh_command(rs[1])
    IN  IF r.raised
        THEN Outcome(<<cmd>>, <<>>,
                RetStr(<<"Failed to get walltime status for job ", id, ": ">> \o r.value))
        ELSE Outcome(<<cmd>>, <<>>,
                RetStr(<<"Walltime status for job ", id, ": ">> \o r.value))

----------------------------------------------------------------------------
(* create_job: the resource specification *)

\* [c for c in clusters if c not in available_clusters]
NoInvalidClusters(clusters, available) == <<>>

invalid_clusters(clusters, available) ==
    SelectSeq(clusters, LAMBDA c : ~(\E i \in 1..Len(available) : available[i] = c))

\* repr() of a list of strings, as an f-string prints it
Repr(list) ==
    <<"[">> \o Join([i \in 1..Len(list) |-> <<"'">> \o list[i] \o <<"'">>], <<",", " ">>)
            \o <<"]">>

\* the term cluster='c'
ClusterTerm(c) == <<"cluster=", "'">> \o c \o <<"'">>

\* a predicate that is the disjunction whatever the number of clusters
ClusterPartAlwaysOr(clusters) ==
    <<"{", "(">>
        \o Join([i \in 1..Len(clusters) |-> ClusterTerm(clusters[i])], <<" ", "OR", " ">>)
        \o <<")", "}">>

cluster_part(clusters) ==
    IF Len(clusters) = 1
    THEN <<"{">> \o ClusterTerm(clusters[1]) \o <<"}">>
    ELSE <<"{", "(">>
            \o Join([i \in 1..Len(clusters) |-> ClusterTerm(clusters[i])], <<" ", "OR", " ">>)
            \o <<")", "}">>

ResourceString(a) ==
    IF Truthy(a.clusters)
    THEN cluster_part(a.clusters.v)
            \o <<"/", "nodes=", ToString(a.nodes), ",", "walltime=">> \o a.walltime
    ELSE <<"nodes=", ToString(a.nodes), ",", "walltime=">> \o a.walltime

----------------------------------------------------------------------------
(* create_job: the command line *)

\* the optional -n and -t arguments, in the order both branches add them
OptionArgs(a) ==
    (IF Truthy(a.name) THEN <<<<"-n">>, a.name.v>> ELSE <<>>)
        \o (IF a.best_effort THEN <<<<"-t">>, <<"besteffort">>>> ELSE <<>>)

oarsub_args(a, resource) ==
    <<<<"oarsub">>, <<"-l">>, resource>> \o OptionArgs(a) \o <<a.command>>

\* an argument never quoted
NeverQuoted(arg) == arg

\* f"'{arg}'" if " " in arg else arg
QuoteIfSpace(arg) ==
    IF Contains(arg, " ") THEN <<"'">> \o arg \o <<"'">> ELSE arg

\* the branch without cluster constraints
PlainCommand(a, resource) ==
    LET as == oarsub_args(a, resource)
    IN  Join([i \in 1..Len(as) |-> QuoteIfSpace(as[i])], <<" ">>)

\* the branch with cluster constraints
ClusterCommand(a, resource) ==
    Join(<<<<"oarsub">>, <<"-l">>, <<"\"">> \o resource \o <<"\"">>>>
            \o OptionArgs(a)
            \o <<<<"'">> \o a.command \o <<"'">>>>,
         <<" ">>)

full_command(a, resource) ==
    IF Truthy(a.clusters) THEN ClusterCommand(a, resource)
    ELSE PlainCommand(a, resource)

----------------------------------------------------------------------------
(* create_job: the job id, re.search(r'OAR_JOB_ID=(\d+)', output) *)

\* the literal OAR_JOB_ID= as one token
JobIdKey == "OAR_JOB_ID="

\* \d+ is greedy: the longest run of digits at the start of s
RECURSIVE TakeDigits(_)
TakeDigits(s) ==
    IF s # <<>> /\ IsDigit(Head(s)) THEN <<Head(s)>> \o TakeDigits(Tail(s)) ELSE <<>>

NoMatch == [found |-> FALSE, group1 |-> <<>>]

\* a search that keeps the last match instead of the first
RECURSIVE JobIdSearchLast(_)
JobIdSearchLast(s) ==
    IF s = <<>> THEN NoMatch
    ELSE LET later == JobIdSearchLast(Tail(s))
         IN  IF later.found THEN later
             ELSE IF Head(s) = JobIdKey /\ TakeDigits(Tail(s)) # <<>>
                  THEN [found |-> TRUE, group1 |-> TakeDigits(Tail(s))]
                  ELSE NoMatch

\* re.search scans from the left and returns the first position that matches
RECURSIVE JobIdSearch(_)
JobIdSearch(s) ==
    IF s = <<>> THEN NoMatch
    ELSE IF Head(s) = JobIdKey /\ TakeDigits(Tail(s)) # <<>>
         THEN [found |-> TRUE, group1 |-> TakeDigits(Tail(s))]
         ELSE JobIdSearch(Tail(s))

----------------------------------------------------------------------------
(* create_job *)

CreateOutcome(cmds, r, resource) ==
    [issued |-> cmds, loads |-> <<>>, ret |-> r, resource_string |-> resource]

\* lines 180-219: build the command line, run it, read the job id; `before`
\* are the command lines already issued, `reply` the outcome of oarsub
Submit(a, before, reply) ==
    LET resource == ResourceString(a)
        cmd == full_command(a, resource)
        r == run_ssh_command(reply)
        m == JobIdSearch(r.value)
    IN  IF r.raised
        THEN CreateOutcome(Append(before, cmd),
                RetStr(<<"Failed to create job: ">> \o r.value), resource)
        ELSE IF m.found
        THEN CreateOutcome(Append(before, cmd),
                RetStr(<<"Job created successfully with ID: ">> \o m.group1
                          \o <<"\n", "Output: ">> \o r.value), resource)
        ELSE CreateOutcome(Append(before, cmd),
                RetStr(<<"Job submission completed: ">> \o r.value), resource)

create_job(a, rs) ==
    IF ~DurationMatch(a.walltime)
    THEN CreateOutcome(<<>>,
            RetStr(<<"Invalid walltime format. Use hh:mm:ss (e.g., '1:00:00')">>), <<>>)
    ELSE IF Truthy(a.clusters)
    THEN LET lc == list_clusters(rs)
             invalid == invalid_clusters(a.clusters.v, lc.ret.items)
         IN  IF lc.ret.kind = "raise"
             THEN CreateOutcome(lc.issued,
                     RetStr(<<"Failed to create job: ">> \o lc.ret.msg), <<>>)
             ELSE IF invalid # <<>>
             THEN CreateOutcome(lc.issued,
                     RetStr(<<"Invalid clusters: ">> \o Repr(invalid)
                               \o <<". Available: ">> \o Repr(lc.ret.items)), <<>>)
             ELSE Submit(a, lc.issued, rs[2])
    ELSE Submit(a, <<>>, rs[1])

----------------------------------------------------------------------------
(* JSON: json.loads on the texts the model uses *)

RECURSIVE DropSpaces(_)
DropSpaces(s) ==
    IF s = <<>> THEN <<>>
    ELSE IF IsSpace(Head(s)) THEN DropSpaces(Tail(s))
    ELSE <<Head(s)>> \o DropSpaces(Tail(s))

\* The JSON documents over the tokens "{", "}", digits, white space and other
\* text: the empty object (white space allowed inside), or an integer without
\* a leading zero.  Everything else over these tokens is not JSON.
IsJson(s) ==
    \/ DropSpaces(s) = <<"{", "}">>
    \/ /\ s # <<>>
       /\ \A i \in 1..Len(s) : IsDigit(s[i])
       /\ (Len(s) > 1 => s[1] # "0")

\* json.loads: the parsed document, or JSONDecodeError; str(e) is one fixed
\* text here (Python's varies with the place of the error)
JsonLoads(s) ==
    IF IsJson(s) THEN [ok |-> TRUE, value |-> [json |-> DropSpaces(s)], err |-> <<>>]
    ELSE [ok |-> FALSE, value |-> <<>>, err |-> <<"Expecting value">>]

RetJson(v) == [kind |-> "json", value |-> v]
RetDict(d) == [kind |-> "dict", d |-> d]

\* a degraded result that drops the raw text
DegradedNoRaw(err, output) ==
    RetDict([error |-> <<"Failed to parse JSON output: ">> \o err])

\* {"error": f"Failed to parse JSON output: {str(e)}", "raw_output": output}
Degraded(err, output) ==
    RetDict([error |-> <<"Failed to parse JSON output: ">> \o err, raw_output |-> output])

----------------------------------------------------------------------------
(* The structured queries *)

list_machines_detailed(rs) ==
    LET cmd == <<"oarnodes", " ", "-J">>
        r == run_ssh_command(rs[1])
        j == JsonLoads(r.value)
    IN  IF r.raised THEN Outcome(<<cmd>>, <<>>, RetRaise(r.value))
        ELSE IF j.ok THEN Outcome(<<cmd>>, <<r.value>>, RetJson(j.value))
        ELSE Outcome(<<cmd>>, <<r.value>>, Degraded(j.err, r.value))

get_job_status(a, rs) ==
    LET id == ToString(a.job_id)
        cmd == <<"oarstat", " ", "-j", " ", id, " ", "-J">>
        r == run_ssh_command(rs[1])
        j == JsonLoads(r.value)
    IN  IF r.raised
        THEN Outcome(<<cmd>>, <<>>,
                RetDict([error |-> <<"Failed to get job status for ", id, ": ">> \o r.value]))
        ELSE IF j.ok THEN Outcome(<<cmd>>, <<r.value>>, RetJson(j.value))
        ELSE Outcome(<<cmd>>, <<r.value>>, Degraded(j.err, r.value))

list_all_jobs(rs) ==
    LET cmd == <<"oarstat", " ", "-J">>
        r == run_ssh_command(rs[1])
        j == JsonLoads(r.value)
    IN  IF r.raised
        THEN Outcome(<<cmd>>, <<>>,
                RetDict([error |-> <<"Failed to list jobs: ">> \o r.value]))
        ELSE IF j.ok THEN Outcome(<<cmd>>, <<r.value>>, RetJson(j.value))
        ELSE Outcome(<<cmd>>, <<r.value>>, Degraded(j.err, r.value))

\* a probe that never reports "no jobs"
ProbeNeverEmpty(regular_output) == FALSE

\* a probe that always reports "no jobs"
ProbeAlwaysEmpty(regular_output) == TRUE

\* `not regular_output.strip()`
ProbeEmpty(regular_output) == Strip(regular_output) = <<>>

list_my_jobs(rs) ==
    LET probe == <<"oarstat", " ", "-u">>
        query == <<"oarstat", " ", "-u", " ", "-J">>
        r1 == run_ssh_command(rs[1])
        r2 == run_ssh_command(rs[2])
        j == JsonLoads(r2.value)
        r3 == run_ssh_command(rs[3])
    IN  IF r1.raised
        THEN Outcome(<<probe>>, <<>>,
                RetDict([error |-> <<"Failed to list jobs for current user: ">> \o r1.value]))
        ELSE IF ProbeEmpty(r1.value)
        THEN Outcome(<<probe>>, <<>>,
                RetDict([message |-> <<"No jobs found for current user">>, jobs |-> <<>>]))
        ELSE IF r2.raised
        THEN Outcome(<<probe, query>>, <<>>,
                RetDict([error |-> <<"Failed to list jobs for current user: ">> \o r2.value]))
        ELSE IF j.ok
        THEN Outcome(<<probe, query>>, <<r2.value>>, RetJson(j.value))
        ELSE IF r3.raised
        THEN Outcome(<<probe, query, probe>>, <<r2.value>>,
                RetDict([error |-> <<"Failed to parse JSON output and fallback failed: ">>
                                      \o j.err,
                         raw_output |-> r2.value]))
        ELSE Outcome(<<probe, query, probe>>, <<r2.value>>,
                RetDict([message |->
                            <<"Jobs for current user (text format due to JSON parsing error)">>,
                         output |-> r3.value]))

----------------------------------------------------------------------------
(* Inputs: the arguments of the calls and the outcomes of the remote side *)

\* every string over a digit, the colon and the newline, up to MaxDurLen
Durations == StringsUpTo({"1", ":", "\n"}, MaxDurLen)

\* two durations of the documented form, "2:00:00" and "12:30:00"
ShortWalltime == <<"2", ":", "0", "0", ":", "0", "0">>
LongWalltime == <<"1", "2", ":", "3", "0", ":", "0", "0">>

\* raw stdout of `oarnodes -l`: every text over these characters
InventoryTexts == StringsUpTo({"a", "b", "-", "\n", " "}, MaxInvLen)

\* two inventories: nodes a-a and b-a; node b- alone
TwoClusters == <<"a", "-", "a", "\n", "b", "-", "a">>
OneCluster == <<"b", "-">>

\* cluster names a request may use; "c" is in no inventory above
RequestNames == {<<"a">>, <<"b">>, <<"c">>}
ClusterLists == StringsUpTo(RequestNames, MaxClusters)

\* raw stdout of oarsub: every text over these tokens
SubmitTexts == StringsUpTo({JobIdKey, "1", "2", "x", " "}, MaxOutLen)

\* raw stdout of a structured query: every text over these tokens
JsonTexts == StringsUpTo({"{", "}", "7", "x", " "}, MaxJsonLen)

DefaultCommand == <<"sleep", " ", "365d">>
Commands == {DefaultCommand, <<"hostname">>}
Names == {None, Some(<<>>), Some(<<"job">>), Some(<<"my", " ", "job">>)}

JobArgs(cl, n, w, c, nm, be) ==
    [clusters |-> cl, nodes |-> n, walltime |-> w, command |-> c,
     name |-> nm, best_effort |-> be]

InventoryReplies == {Ok(t) : t \in InventoryTexts} \cup Failures
TextReplies == {Ok(<<"done">>), Ok(<<" ", "done", "\n">>), Ok(<<>>)} \cup Failures
JsonReplies == {Ok(t) : t \in JsonTexts} \cup Failures
ProbeReplies == {Ok(<<>>), Ok(<<"\n">>), Ok(<<"1", " ", "R">>)} \cup Failures

----------------------------------------------------------------------------
(* The state machine: one action per tool *)

NoCall == [kind |-> "none"]

Init ==
    /\ op = "none"
    /\ args = <<>>
    /\ replies = <<>>
    /\ issued = <<>>
    /\ loads = <<>>
    /\ ret = NoCall
    /\ resource_string = <<>>

\* tool `name` ran on arguments a with the remote outcomes rs and ended as out
Call(name, a, rs, out) ==
    /\ op' = name
    /\ args' = a
    /\ replies' = SubSeq(rs, 1, Len(out.issued))
    /\ issued' = out.issued
    /\ loads' = out.loads
    /\ ret' = out.ret

ListMachines ==
    /\ op = "none"
    /\ \E r \in InventoryReplies :
        /\ Call("list_machines", <<>>, <<r>>, list_machines(<<r>>))
        /\ resource_string' = <<>>

ListMachinesDetailed ==
    /\ op = "none"
    /\ \E r \in JsonReplies :
        /\ Call("list_machines_detailed", <<>>, <<r>>, list_machines_detailed(<<r>>))
        /\ resource_string' = <<>>

ListClusters ==
    /\ op = "none"
    /\ \E r \in InventoryReplies :
        /\ Call("list_clusters", <<>>, <<r>>, list_clusters(<<r>>))
        /\ resource_string' = <<>>

DeleteJob ==
    /\ op = "none"
    /\ \E id \in 1..MaxJobId, r \in TextReplies :
        /\ Call("delete_job", [job_id |-> id], <<r>>, delete_job([job_id |-> id], <<r>>))
        /\ resource_string' = <<>>

ExtendWalltimeOn(a, r) ==
    /\ Call("extend_walltime", a, <<r>>, extend_walltime(a, <<r>>))
    /\ resource_string' = <<>>

\* every duration string; then every combination of the other arguments and
\* outcomes
ExtendWalltime ==
    /\ op = "none"
    /\ \/ \E t \in Durations, f \in BOOLEAN, r \in {Ok(<<"ok">>), TimedOut} :
            ExtendWalltimeOn([job_id |-> 1, additional_time |-> t, force |-> f], r)
       \/ \E id \in 1..MaxJobId, f \in BOOLEAN, r \in TextReplies,
             t \in {ShortWalltime, LongWalltime, <<"2", "5", ":", "0", "0">>} :
            ExtendWalltimeOn([job_id |-> id, additional_time |-> t, force |-> f], r)

GetWalltimeStatus ==
    /\ op = "none"
    /\ \E id \in 1..MaxJobId, r \in TextReplies :
        /\ Call("get_walltime_status", [job_id |-> id], <<r>>,
                get_walltime_status([job_id |-> id], <<r>>))
        /\ resource_string' = <<>>

CreateJobOn(a, inv, sub) ==
    LET rs == IF Truthy(a.clusters) THEN <<inv, sub>> ELSE <<sub>>
        out == create_job(a, rs)
    IN  /\ Call("create_job", a, rs, out)
        /\ resource_string' = out.resource_string

\* every duration string; every combination of the other arguments; every
\* oarsub output; every inventory
CreateJob ==
    /\ op = "none"
    /\ \/ \E cl \in {None, Some(<<<<"b">>>>)}, w \in Durations,
             sub \in {Ok(<<JobIdKey, "1">>), TimedOut} :
            CreateJobOn(JobArgs(cl, 1, w, DefaultCommand, None, FALSE), Ok(OneCluster), sub)
       \/ \E cl \in {None} \cup {Some(l) : l \in ClusterLists}, n \in 1..MaxNodes,
             w \in {ShortWalltime, LongWalltime}, c \in Commands, nm \in Names,
             be \in BOOLEAN,
             inv \in {Ok(TwoClusters), Ok(OneCluster), Failed(<<"denied", "\n">>)},
             sub \in {Ok(<<JobIdKey, "7">>), Ok(<<"x">>), Failed(<<"denied", "\n">>)} :
            CreateJobOn(JobArgs(cl, n, w, c, nm, be), inv, sub)
       \/ \E cl \in {None, Some(<<<<"b">>>>)}, t \in SubmitTexts :
            CreateJobOn(JobArgs(cl, 1, ShortWalltime, DefaultCommand, None, FALSE),
                        Ok(OneCluster), Ok(t))
       \/ \E l \in {<<<<"a">>>>, <<<<"b">>, <<"a">>>>}, t \in InventoryTexts :
            CreateJobOn(JobArgs(Some(l), 1, ShortWalltime, DefaultCommand, None, FALSE),
                        Ok(t), Ok(<<JobIdKey, "1">>))

GetJobStatus ==
    /\ op = "none"
    /\ \E id \in 1..MaxJobId, r \in JsonReplies :
        /\ Call("get_job_status", [job_id |-> id], <<r>>,
                get_job_status([job_id |-> id], <<r>>))
        /\ resource_string' = <<>>

ListAllJobs ==
    /\ op = "none"
    /\ \E r \in JsonReplies :
        /\ Call("list_all_jobs", <<>>, <<r>>, list_all_jobs(<<r>>))
        /\ resource_string' = <<>>

ListMyJobs ==
    /\ op = "none"
    /\ \E r1 \in ProbeReplies, r2 \in JsonReplies, r3 \in ProbeReplies :
        /\ Call("list_my_jobs", <<>>, <<r1, r2, r3>>, list_my_jobs(<<r1, r2, r3>>))
        /\ resource_string' = <<>>

\* the result goes back to the caller; nothing of the call is kept
Respond ==
    /\ op # "none"
    /\ op' = "none"
    /\ args' = <<>>
    /\ replies' = <<>>
    /\ issued' = <<>>
    /\ loads' = <<>>
    /\ ret' = NoCall
    /\ resource_string' = <<>>

Next ==
    \/ ListMachines
    \/ ListMachinesDetailed
    \/ ListClusters
    \/ DeleteJob
    \/ ExtendWalltime
    \/ GetWalltimeStatus
    \/ CreateJob
    \/ GetJobStatus
    \/ ListAllJobs
    \/ ListMyJobs
    \/ Respond

Spec == Init /\ [][Next]_vars

----------------------------------------------------------------------------
(* Vocabulary of the properties *)

\* s is exactly 1-2 digits, ':', 2 digits, ':', 2 digits, and nothing else
ExactDuration(s) ==
    /\ Len(s) \in {7, 8}
    /\ LET h == Len(s) - 6
       IN  /\ \A i \in 1..h : s[i] \in Digits
           /\ s[h + 1] = ":" /\ s[h + 2] \in Digits /\ s[h + 3] \in Digits
           /\ s[h + 4] = ":" /\ s[h + 5] \in Digits /\ s[h + 6] \in Digits

IsPrefix(p, s) == Len(p) <= Len(s) /\ SubSeq(s, 1, Len(p)) = p
IsSuffix(p, s) == Len(p) <= Len(s) /\ SubSeq(s, Len(s) - Len(p) + 1, Len(s)) = p
IsInfix(p, s) == \E i \in 0..(Len(s) - Len(p)) : SubSeq(s, i + 1, i + Len(p)) = p

InventoryCommand == <<"oarnodes", " ", "-l">>
ProbeCommand == <<"oarstat", " ", "-u">>
QueryCommand == <<"oarstat", " ", "-u", " ", "-J">>

\* the call was turned down by a validation message
Rejected ==
    /\ ret.kind = "str"
    /\ ret.text[1] \in {"Invalid walltime format. Use hh:mm:ss (e.g., '1:00:00')",
                        "Invalid time format. Use hh:mm:ss (e.g., '1:30:00')",
                        "Invalid clusters: "}

\* some ssh invocation of the call failed or timed out
SomeRemoteFailure == \E i \in 1..Len(replies) : replies[i].kind \in {"fail", "timeout"}

\* a create_job call that went as far as oarsub
Submitted ==
    /\ op = "create_job"
    /\ issued # <<>>
    /\ issued[Len(issued)][1] = "oarsub"

\* the command line of that oarsub
SubmitLine == issued[Len(issued)]

----------------------------------------------------------------------------
(* C1 *)

\* C1 (as claimed): a duration that is not exactly 1-2 digits, ':', 2 digits,
\* ':', 2 digits makes create_job and extend_walltime return their validation
\* message without any remote command.
C1_InvalidDurationRejected ==
    /\ (op = "create_job" /\ ~ExactDuration(args.walltime)) =>
            /\ issued = <<>>
            /\ ret = RetStr(<<"Invalid walltime format. Use hh:mm:ss (e.g., '1:00:00')">>)
    /\ (op = "extend_walltime" /\ ~ExactDuration(args.additional_time)) =>
            /\ issued = <<>>
            /\ ret = RetStr(<<"Invalid time format. Use hh:mm:ss (e.g., '1:30:00')">>)

----------------------------------------------------------------------------
(* C2 *)

\* C2 (as claimed): whenever a remote command of a call fails or times out,
\* the tool returns a payload; no exception reaches the caller.
C2_FailureNeverRaised ==
    (op # "none" /\ SomeRemoteFailure) => ret.kind # "raise"

----------------------------------------------------------------------------
(* C3 *)

\* C3 (as claimed): every call that passes validation issues exactly one
\* remote command.
C3_ExactlyOneCommand ==
    (op # "none" /\ ~Rejected) => Len(issued) = 1

\* the number of remote commands create_job issues when not rejected: with a
\* non-empty clusters list the inventory query and, if that succeeded, oarsub
CreateJobCommands ==
    IF Truthy(args.clusters) /\ replies[1].kind = "ok" THEN 2 ELSE 1

\* the number of remote commands list_my_jobs issues: the probe; after a
\* non-empty probe the structured query; after output that is not JSON the
\* probe again
ListMyJobsCommands ==
    IF replies[1].kind # "ok" \/ Strip(replies[1].stdout) = <<>> THEN 1
    ELSE IF Len(replies) >= 2 /\ replies[2].kind = "ok"
            /\ ~IsJson(Strip(replies[2].stdout)) THEN 3
    ELSE 2

\* C3 (amended): every call that passes validation issues at least one remote
\* command; exactly one for every tool but create_job with a non-empty
\* clusters list (two when the inventory query succeeds) and list_my_jobs
\* (two after a non-empty probe, three when the JSON does not parse).
C3_CommandCounts ==
    (op # "none" /\ ~Rejected) =>
        /\ Len(issued) >= 1
        /\ Len(issued) = Len(replies)
        /\ op \notin {"create_job", "list_my_jobs"} => Len(issued) = 1
        /\ op = "create_job" => Len(issued) = CreateJobCommands
        /\ op = "list_my_jobs" => Len(issued) = ListMyJobsCommands

C3_Witness ==
    /\ op = "list_my_jobs"
    /\ Len(issued) = 3
    /\ issued = <<ProbeCommand, QueryCommand, ProbeCommand>>

----------------------------------------------------------------------------
(* C4 *)

\* the hostnames the inventory query of this call returned
InventoryHosts == ParseMachines(Strip(replies[1].stdout))

\* the cluster names of that inventory, as a set
InventoryNames ==
    UNION {{SubSeq(InventoryHosts[i], 1, k - 1) :
                k \in {n \in 1..Len(InventoryHosts[i]) :
                            /\ InventoryHosts[i][n] = "-"
                            /\ \A j \in 1..(n - 1) : InventoryHosts[i][j] # "-"}} :
           i \in 1..Len(InventoryHosts)}

\* the requested names that are not in the inventory, in request order
AbsentNames == SelectSeq(args.clusters.v, LAMBDA c : c \notin InventoryNames)

\* the valid set, sorted: the ascending sequence whose elements are InventoryNames
SortedInventory ==
    CHOOSE l \in [1..Cardinality(InventoryNames) -> InventoryNames] :
        \A i, j \in 1..Len(l) : i < j => StrLess(l[i], l[j])

\* a create_job call with a valid walltime and a non-empty clusters list whose
\* inventory query succeeded
ClusterRequest ==
    /\ op = "create_job"
    /\ ExactDuration(args.walltime)
    /\ Truthy(args.clusters)
    /\ replies[1].kind = "ok"

\* C4: a create_job call with a valid walltime and a requested cluster that is
\* absent from the inventory of that call returns "Invalid clusters: <absent
\* names in request order>. Available: <sorted valid set>" and never issues
\* oarsub; an oarsub with a cluster predicate is only ever the second command,
\* after an inventory query that succeeded and held every requested name.
C4_UnknownClusterRejected ==
    /\ (ClusterRequest /\ AbsentNames # <<>>) =>
            /\ ret = RetStr(<<"Invalid clusters: ">> \o Repr(AbsentNames)
                               \o <<". Available: ">> \o Repr(SortedInventory))
            /\ issued = <<InventoryCommand>>
    /\ \A i \in 1..Len(issued) :
            (issued[i][1] = "oarsub" /\ Contains(issued[i], "cluster=")) =>
                /\ i = 2
                /\ issued[1] = InventoryCommand
                /\ replies[1].kind = "ok"
                /\ \A k \in 1..Len(args.clusters.v) : args.clusters.v[k] \in InventoryNames

\* two names requested, the first absent and the second present: only the
\* absent one is listed
C4_Witness ==
    /\ ClusterRequest
    /\ args.clusters.v = <<<<"c">>, <<"a">>>>
    /\ AbsentNames = <<<<"c">>>>
    /\ Cardinality(InventoryNames) = 2
    /\ issued = <<InventoryCommand>>

----------------------------------------------------------------------------
(* C5 *)

\* cluster='a' OR cluster='b' OR ..., one term per element, in list order
RECURSIVE OrTerms(_)
OrTerms(l) ==
    IF Len(l) = 1 THEN <<"cluster=", "'">> \o l[1] \o <<"'">>
    ELSE <<"cluster=", "'">> \o l[1] \o <<"'", " ", "OR", " ">> \o OrTerms(Tail(l))

NodesAndWalltime == <<"nodes=", ToString(args.nodes), ",", "walltime=">> \o args.walltime

\* C5: the resource string of an accepted request is nodes=n,walltime=w
\* without clusters, {cluster='c'}/nodes=n,walltime=w for exactly [c], and
\* {(cluster='a' OR cluster='b' OR ...)}/nodes=n,walltime=w for two or more,
\* one term per element in request order, duplicates kept.
C5_ResourceString ==
    Submitted =>
        /\ ~Truthy(args.clusters) => resource_string = NodesAndWalltime
        /\ (Truthy(args.clusters) /\ Len(args.clusters.v) = 1) =>
                resource_string = <<"{", "cluster=", "'">> \o args.clusters.v[1]
                                     \o <<"'", "}", "/">> \o NodesAndWalltime
        /\ (Truthy(args.clusters) /\ Len(args.clusters.v) >= 2) =>
                resource_string = <<"{", "(">> \o OrTerms(args.clusters.v)
                                     \o <<")", "}", "/">> \o NodesAndWalltime

\* an accepted request with two clusters in descending order
C5_Witness ==
    /\ Submitted
    /\ args.clusters.v = <<<<"b">>, <<"a">>>>
    /\ args.nodes = 2
    /\ IsPrefix(<<"{", "(", "cluster=", "'", "b", "'", " ", "OR", " ", "cluster=", "'", "a", "'",
                  ")", "}", "/", "nodes=", "2", ",", "walltime=">>, resource_string)

----------------------------------------------------------------------------
(* C6 *)

\* C6 (as claimed): in every accepted request, with or without clusters, the
\* command line ends with the command in single quotes and carries the
\* resource string in double quotes right after -l.
C6_AlwaysQuoted ==
    Submitted =>
        /\ IsSuffix(<<" ", "'">> \o args.command \o <<"'">>, SubmitLine)
        /\ IsPrefix(<<"oarsub", " ", "-l", " ", "\"">> \o resource_string \o <<"\"">>,
                    SubmitLine)

\* arg in single quotes if it holds a space, bare otherwise
SpaceQuoted(arg) ==
    IF \E i \in 1..Len(arg) : arg[i] = " " THEN <<"'">> \o arg \o <<"'">> ELSE arg

\* " -n <name>" when a non-empty name is given, then " -t besteffort" when asked
ExpectedOptions(nameText) ==
    (IF Truthy(args.name) THEN <<" ", "-n", " ">> \o nameText ELSE <<>>)
        \o (IF args.best_effort THEN <<" ", "-t", " ", "besteffort">> ELSE <<>>)

\* C6 (amended): with cluster constraints the command line is
\* oarsub -l "<resource>" [-n <name>] [-t besteffort] '<command>', the name
\* never quoted; without cluster constraints it is
\* oarsub -l <resource> [-n <name>] [-t besteffort] <command>, where the
\* resource string, the name and the command are each put in single quotes
\* exactly when they contain a space (so the resource string is bare).
C6_QuotingByBranch ==
    Submitted =>
        IF Truthy(args.clusters)
        THEN SubmitLine = <<"oarsub", " ", "-l", " ", "\"">> \o resource_string \o <<"\"">>
                            \o ExpectedOptions(args.name.v)
                            \o <<" ", "'">> \o args.command \o <<"'">>
        ELSE SubmitLine = <<"oarsub", " ", "-l", " ">> \o SpaceQuoted(resource_string)
                            \o ExpectedOptions(SpaceQuoted(args.name.v))
                            \o <<" ">> \o SpaceQuoted(args.command)

\* no clusters, a name with a space and a command without: the name is quoted,
\* the command and the resource string are bare
C6_Witness ==
    /\ Submitted
    /\ ~Truthy(args.clusters)
    /\ args.name = Some(<<"my", " ", "job">>)
    /\ args.command = <<"hostname">>
    /\ IsInfix(<<" ", "-n", " ", "'", "my", " ", "job", "'", " ">>, SubmitLine)
    /\ IsSuffix(<<" ", "hostname">>, SubmitLine)

----------------------------------------------------------------------------
(* C7 *)

\* the outcome of the structured query of the call: the second command of
\* list_my_jobs, the only command of the other three
QueryReply == IF op = "list_my_jobs" THEN replies[2] ELSE replies[1]

\* a structured query that succeeded with output that is not JSON
QueryNotJson ==
    /\ op \in {"list_machines_detailed", "get_job_status", "list_all_jobs", "list_my_jobs"}
    /\ Len(replies) >= (IF op = "list_my_jobs" THEN 2 ELSE 1)
    /\ QueryReply.kind = "ok"
    /\ ~IsJson(Strip(QueryReply.stdout))

\* the result carries a parse-error message and the query's raw text
CarriesErrorAndRaw ==
    /\ ret.kind = "dict"
    /\ DOMAIN ret.d = {"error", "raw_output"}
    /\ ret.d.error[1] \in {"Failed to parse JSON output: ",
                           "Failed to parse JSON output and fallback failed: "}
    /\ ret.d.raw_output = Strip(QueryReply.stdout)

\* C7 (as claimed): every structured query whose output is not JSON returns a
\* parse-error message together with the raw text of that query.
C7_AlwaysErrorAndRaw == QueryNotJson => CarriesErrorAndRaw

\* C7 (amended): list_machines_detailed, get_job_status and list_all_jobs do;
\* list_my_jobs issues the plain-text probe again and does so only when that
\* probe fails; when it succeeds the result is {message, output} with the
\* probe's text, and carries neither the parse error nor the query's raw text.
C7_DegradedResults ==
    QueryNotJson =>
        /\ loads = <<Strip(QueryReply.stdout)>>
        /\ op # "list_my_jobs" => CarriesErrorAndRaw
        /\ (op = "list_my_jobs" /\ replies[3].kind # "ok") => CarriesErrorAndRaw
        /\ (op = "list_my_jobs" /\ replies[3].kind = "ok") =>
                /\ ret.kind = "dict"
                /\ DOMAIN ret.d = {"message", "output"}
                /\ ret.d.output = Strip(replies[3].stdout)

\* list_my_jobs answered from the second probe after unparsable JSON
C7_Witness ==
    /\ QueryNotJson
    /\ op = "list_my_jobs"
    /\ replies[3].kind = "ok"
    /\ ret.kind = "dict"
    /\ "output" \in DOMAIN ret.d

----------------------------------------------------------------------------
(* C8 *)

\* C8: whatever the order of the hostnames the inventory listing returned,
\* list_clusters returns a strictly ascending list (sorted, no duplicates)
\* whose elements are exactly the substrings before the first '-' of the
\* hostnames that contain a '-'.
C8_ClustersSortedUnique ==
    (op = "list_clusters" /\ ret.kind = "list") =>
        /\ \A i, j \in 1..Len(ret.items) : i < j => StrLess(ret.items[i], ret.items[j])
        /\ {ret.items[i] : i \in 1..Len(ret.items)} = InventoryNames

\* a hostname of cluster b listed before one of cluster a
C8_Witness ==
    /\ op = "list_clusters"
    /\ ret.kind = "list"
    /\ InventoryHosts = <<<<"b", "-">>, <<"a", "-">>>>
    /\ ret.items = <<<<"a">>, <<"b">>>>

----------------------------------------------------------------------------
(* C9 *)

\* what oarsub printed, as create_job sees it
SubmitOutput == Strip(replies[Len(replies)].stdout)

\* the positions of the tokens OAR_JOB_ID=<digits> in the output
TokenStarts ==
    {i \in 1..(Len(SubmitOutput) - 1) :
        SubmitOutput[i] = JobIdKey /\ SubmitOutput[i + 1] \in Digits}

FirstToken == CHOOSE i \in TokenStarts : \A k \in TokenStarts : i <= k

\* the last digit of the first token
FirstTokenEnd ==
    CHOOSE e \in (FirstToken + 1)..Len(SubmitOutput) :
        /\ \A k \in (FirstToken + 1)..e : SubmitOutput[k] \in Digits
        /\ (e = Len(SubmitOutput) \/ SubmitOutput[e + 1] \notin Digits)

\* C9: when oarsub succeeds, create_job reports the digits of the first
\* OAR_JOB_ID=<digits> token as the job id, followed by the raw output; with
\* no such token it returns the raw output as a completed submission, not as
\* a failure.
C9_JobIdExtracted ==
    (Submitted /\ replies[Len(replies)].kind = "ok") =>
        IF TokenStarts # {}
        THEN ret = RetStr(<<"Job created successfully with ID: ">>
                            \o SubSeq(SubmitOutput, FirstToken + 1, FirstTokenEnd)
                            \o <<"\n", "Output: ">> \o SubmitOutput)
        ELSE ret = RetStr(<<"Job submission completed: ">> \o SubmitOutput)

\* an output with two tokens: the id is the first one's
C9_Witness ==
    /\ Submitted
    /\ replies[Len(replies)] = Ok(<<JobIdKey, "1", JobIdKey, "2">>)
    /\ ret.text[2] = "1"
    /\ ret.text[3] = "\n"

----------------------------------------------------------------------------
(* C10 *)

\* C10: list_my_jobs issues the probe `oarstat -u` first; an empty (trimmed)
\* probe output ends the call with {message, jobs: {}} after that single
\* command and without any JSON parse; `oarstat -u -J` is only ever issued
\* after a probe that succeeded with non-empty output.
C10_ProbeFirst ==
    op = "list_my_jobs" =>
        /\ issued[1] = ProbeCommand
        /\ (replies[1].kind = "ok" /\ Strip(replies[1].stdout) = <<>>) =>
                /\ ret = RetDict([message |-> <<"No jobs found for current user">>,
                                  jobs |-> <<>>])
                /\ issued = <<ProbeCommand>>
                /\ loads = <<>>
        /\ \A i \in 1..Len(issued) :
                issued[i] = QueryCommand =>
                    /\ i = 2
                    /\ replies[1].kind = "ok"
                    /\ Strip(replies[1].stdout) # <<>>

\* a probe that printed only a newline
C10_Witness ==
    /\ op = "list_my_jobs"
    /\ replies = <<Ok(<<"\n">>)>>
    /\ ret.kind = "dict"
    /\ "jobs" \in DOMAIN ret.d

====
